---- MODULE Spec2Model ----
(***************************************************************************)
(* The live-metrics pipeline of the dashboard: the MainTabs component      *)
(* with its two hooks, useMetrics (one historical request per scope) and   *)
(* useWebSocketMetrics (one WebSocket per (serverId, token)), and the      *)
(* memoised merge allMetrics that every consumer reads.                    *)
(*                                                                         *)
(* One action is one turn of the JavaScript event loop: a React commit     *)
(* (render, effect cleanups, effects), the continuation of an await, or a  *)
(* WebSocket event handler.                                                *)
(***************************************************************************)
EXTENDS Integers, Sequences, FiniteSets, TLC

(***************************************************************************)
(* Bounds of the model.                                                    *)
(***************************************************************************)
\* live points the model lets liveMetrics hold (the code has no limit)
MaxLive == 2
\* changes of serverId, token or period after the mount
MaxScopeChanges == 1
\* points of the large historical batch beyond CAPACITY
Excess == 1

\* "keep last 200 points": the capacity the legacy combined hook applied to
\* its buffer, and the capacity the specification states for the snapshot
CAPACITY == 200

(***************************************************************************)
(* Timestamps.  A timestamp is the string the backend sent.  Two strings   *)
(* can spell the same instant ("...T00:01:00Z", "...T00:01:00.000Z"), a    *)
(* string can be unparseable, and the field can be absent.  The Map of     *)
(* allMetrics is keyed by the string; the sort is keyed by                 *)
(* new Date(string).getTime().                                             *)
(***************************************************************************)
\* "2024-01-01T00:<m>:00Z"
Iso(m) == [fmt |-> "iso", ms |-> m * 60000]
\* "2024-01-01T00:<m>:00.000Z": the same instant, another string
IsoMillis(m) == [fmt |-> "iso.ms", ms |-> m * 60000]
\* a string Date cannot parse
Garbage == [fmt |-> "garbage", ms |-> 0]
\* the timestamp field is absent (undefined)
NoTimestamp == [fmt |-> "undefined", ms |-> 0]

\* new Date(timestamp).getTime(): a number of milliseconds, or NaN
DateGetTime(timestamp) ==
    IF timestamp.fmt \in {"iso", "iso.ms"}
    THEN [nan |-> FALSE, ms |-> timestamp.ms]
    ELSE [nan |-> TRUE, ms |-> 0]

(***************************************************************************)
(* Raw records and their normalisation.                                    *)
(* A raw record is {timestamp, metrics: [{name, value}], meta}; metrics    *)
(* may be absent.  hostname stands for meta.server_info: the server the    *)
(* record was measured on.                                                 *)
(***************************************************************************)
Metrics(items) == [present |-> TRUE, items |-> items]
NoMetrics == [present |-> FALSE, items |-> << >>]

RawRecord(timestamp, metrics, hostname) ==
    [timestamp |-> timestamp, metrics |-> metrics, hostname |-> hostname]

\* metrics.find(x => x.name === name)?.value ?? dflt
FindValue(items, name, dflt) ==
    IF \E i \in 1..Len(items) : items[i].name = name
    THEN LET i == CHOOSE k \in 1..Len(items) :
                    /\ items[k].name = name
                    /\ \A j \in 1..(k - 1) : items[j].name # name
         IN items[i].value
    ELSE dflt

NoPoint == [timestamp |-> NoTimestamp, cpu |-> 0, memory |-> 0, serverInfo |-> ""]

\* The object literal both hooks build from a raw record.  item.metrics.find
\* is called without optional chaining for cpu and memory: a record with no
\* metrics array throws a TypeError.
NormalizePoint(item) ==
    IF ~item.metrics.present
    THEN [threw |-> TRUE, point |-> NoPoint]
    ELSE [threw |-> FALSE,
          point |-> [timestamp  |-> item.timestamp,
                     cpu        |-> FindValue(item.metrics.items, "cpu.percent", 0),
                     memory     |-> FindValue(item.metrics.items, "mem.percent", 0),
                     serverInfo |-> item.hostname]]

\* MapNormalize as a loop that keeps the points built before a record throws
MapNormalizePartial(data) ==
    LET n == Cardinality({i \in 1..Len(data) :
                            \A j \in 1..i : ~NormalizePoint(data[j]).threw})
    IN [threw |-> FALSE, points |-> [i \in 1..n |-> NormalizePoint(data[i]).point]]

\* data.map(item => ({...})) of fetchHistorical: throws when one record throws
MapNormalize(data) ==
    IF \E i \in 1..Len(data) : NormalizePoint(data[i]).threw
    THEN [threw |-> TRUE, points |-> << >>]
    ELSE [threw |-> FALSE, points |-> [i \in 1..Len(data) |-> NormalizePoint(data[i]).point]]

(***************************************************************************)
(* allMetrics: the Map keyed by timestamp, then the sort by time.          *)
(* The loops over an array are folds over its index range lo..hi, split    *)
(* in halves.                                                              *)
(***************************************************************************)
\* MapSet with the bug of an array push: an existing key is not replaced
MapSetPush(metricMap, metric) == Append(metricMap, metric)

\* metricMap.set(metric.timestamp, metric): a Map keeps the position of the
\* first insertion of a key and the value of the last
MapSet(metricMap, metric) ==
    IF \E i \in 1..Len(metricMap) : metricMap[i].timestamp = metric.timestamp
    THEN [i \in 1..Len(metricMap) |->
            IF metricMap[i].timestamp = metric.timestamp THEN metric ELSE metricMap[i]]
    ELSE Append(metricMap, metric)

\* metrics.forEach(metric => metricMap.set(metric.timestamp, metric)),
\* for the elements lo..hi of metrics in order
RECURSIVE ForEachSet(_, _, _, _)
ForEachSet(metricMap, metrics, lo, hi) ==
    IF lo > hi THEN metricMap
    ELSE IF lo = hi THEN MapSet(metricMap, metrics[lo])
    ELSE LET mid == (lo + hi) \div 2
             left == ForEachSet(metricMap, metrics, lo, mid)
         IN IF Len(left) >= 0 THEN ForEachSet(left, metrics, mid + 1, hi) ELSE left

\* SortCompare with the operands swapped: b - a
SortCompareDescending(a, b) ==
    LET ta == DateGetTime(a.timestamp)
        tb == DateGetTime(b.timestamp)
    IN IF ta.nan \/ tb.nan THEN 0 ELSE tb.ms - ta.ms

\* (a, b) => new Date(a.timestamp).getTime() - new Date(b.timestamp).getTime();
\* Array.prototype.sort takes a NaN result of the comparator as +0
SortCompare(a, b) ==
    LET ta == DateGetTime(a.timestamp)
        tb == DateGetTime(b.timestamp)
    IN IF ta.nan \/ tb.nan THEN 0 ELSE ta.ms - tb.ms

\* Array.prototype.sort is stable.  It is computed as an insertion sort: x goes
\* behind the last element of sorted that does not compare greater than x
\* (InsertPos: its index among lo..hi, 0 if there is none).  With an
\* unparseable timestamp the comparator is not consistent and the order is
\* implementation-defined; no formula below depends on where such a point
\* lands.
RECURSIVE InsertPos(_, _, _, _)
InsertPos(sorted, x, lo, hi) ==
    IF lo > hi THEN 0
    ELSE IF lo = hi THEN (IF SortCompare(sorted[lo], x) <= 0 THEN lo ELSE 0)
    ELSE LET mid == (lo + hi) \div 2
             upper == InsertPos(sorted, x, mid + 1, hi)
         IN IF upper # 0 THEN upper ELSE InsertPos(sorted, x, lo, mid)

Insert(sorted, x) ==
    LET pos == InsertPos(sorted, x, 1, Len(sorted))
    IN SubSeq(sorted, 1, pos) \o <<x>> \o SubSeq(sorted, pos + 1, Len(sorted))

RECURSIVE ArraySort(_, _, _, _)
ArraySort(sorted, values, lo, hi) ==
    IF lo > hi THEN sorted
    ELSE IF lo = hi THEN Insert(sorted, values[lo])
    ELSE LET mid == (lo + hi) \div 2
             left == ArraySort(sorted, values, lo, mid)
         IN IF Len(left) >= 0 THEN ArraySort(left, values, mid + 1, hi) ELSE left

\* Merge with the two forEach loops swapped: live first, historical over it
MergeHistoricalLast(historical, live) ==
    LET metricMap == ForEachSet(ForEachSet(<< >>, live, 1, Len(live)),
                                historical, 1, Len(historical))
    IN ArraySort(<< >>, metricMap, 1, Len(metricMap))

\* useMemo(() => {...}, [historicalMetrics, liveMetrics]): historical first,
\* then live over it, then Array.from(metricMap.values()).sort(...)
Merge(historical, live) ==
    LET metricMap == ForEachSet(ForEachSet(<< >>, historical, 1, Len(historical)),
                                live, 1, Len(live))
    IN ArraySort(<< >>, metricMap, 1, Len(metricMap))

(***************************************************************************)
(* What the environment can hand to the component.                         *)
(***************************************************************************)
\* "" is the falsy serverId / token (!serverId, !token)
ServerIds == {"", "srvA", "srvB"}
Tokens == {"", "tokA"}
Periods == {"1h", "24h"}
\* the serverId of the first render: none, or one server (the servers are
\* interchangeable)
FirstServerIds == {"", "srvA"}

Gauge(name, value) == [name |-> name, value |-> value]

\* a raw record of server hostname with both gauges
Sample(timestamp, cpu, hostname) ==
    RawRecord(timestamp,
              Metrics(<<Gauge("cpu.percent", cpu), Gauge("mem.percent", 40)>>),
              hostname)

\* the bodies GET /api/v1/metrics/history can answer with: for "1h" a list
\* of two records, newest first, or a list holding a record with no metrics
\* array; for "24h" an ordered list of more than CAPACITY records
HistoryBodies(sid, per) ==
    IF per = "1h"
    THEN { <<Sample(Iso(2), 51, sid), Sample(Iso(1), 51, sid)>>,
           <<Sample(Iso(1), 50, sid), RawRecord(Iso(2), NoMetrics, sid)>> }
    ELSE { [m \in 1..(CAPACITY + Excess) |-> Sample(Iso(m), 50, sid)] }

\* the frames a socket of server sid can deliver.  text: event.data is not
\* JSON; type "log": another discriminant; the others are metric frames
TextFrame == [json |-> FALSE, type |-> "", data |-> RawRecord(NoTimestamp, NoMetrics, "")]
JsonFrame(type, data) == [json |-> TRUE, type |-> type, data |-> data]

Frames(sid) ==
    { TextFrame,
      JsonFrame("log", Sample(Iso(3), 11, sid)),
      JsonFrame("metric", RawRecord(Iso(3), NoMetrics, sid)),
      JsonFrame("metric", Sample(Iso(2), 11, sid)),
      JsonFrame("metric", Sample(Iso(2), 12, sid)),
      JsonFrame("metric", Sample(IsoMillis(2), 11, sid)),
      JsonFrame("metric", Sample(Garbage, 11, sid)) }

(***************************************************************************)
(* State.                                                                  *)
(***************************************************************************)
VARIABLES
    mounted,            \* MainTabs is mounted
    serverId, token,    \* props of MainTabs
    period,             \* useState('1h') of MainTabs
    historicalMetrics,  \* useState([]) of useMetrics
    isLoading,          \* useState(true) of useMetrics
    error,              \* useState(null) of useMetrics
    liveMetrics,        \* useState([]) of useWebSocketMetrics
    requests,           \* the fetchHistorical calls suspended at an await, each
                        \* with the `active` flag of the effect run that made it
    sockets,            \* every WebSocket constructed so far
    ws,                 \* index in sockets of the current effect's ws, 0 if none
    changes,            \* scope changes so far (bounded by MaxScopeChanges)
    dropped,            \* "none": onmessage has dropped no frame; "dropped": it
                        \* has; "recovered": and has appended a point since
    scope,              \* of the current scope: Len(liveMetrics) when it began;
                        \* whether its request has delivered its batch ("no",
                        \* "beforeLive": before any point of the stream,
                        \* "afterLive"); whether a request of an earlier scope
                        \* has settled during it
    ingested,           \* what the sources have delivered to the buffers: the
                        \* last batch and every point of the stream, in order
    latestMetric,       \* the point getSystemStatus reads, or null
    currentTime,        \* new Date().getTime() of the render
    systemStatus,       \* the status of the last render, "" before it
    raw,                \* the raw record handed to the two normalisers
    built               \* what each normaliser has made of raw

pipelineVars ==
    <<mounted, serverId, token, period, historicalMetrics, isLoading, error,
      liveMetrics, requests, sockets, ws, changes, dropped, scope, ingested>>
statusVars == <<latestMetric, currentTime, systemStatus>>
normalizerVars == <<raw, built>>
vars == <<pipelineVars, statusVars, normalizerVars>>

\* latestMetric when allMetrics is empty
NoLatest == [null |-> TRUE]

NoError == "null"
FetchFailed == "Failed to fetch historical metrics."

\* const allMetrics = useMemo(...): what every consumer reads
allMetrics == Merge(historicalMetrics, liveMetrics)

Request(sid, per) == [serverId |-> sid, period |-> per, active |-> TRUE, stage |-> "fetch"]
\* lateFrame: a frame has reached the socket after ws.close() was called on it
Socket(sid, tok) ==
    [serverId |-> sid, token |-> tok, readyState |-> "CONNECTING", lateFrame |-> FALSE]

NewScope(live) == [liveBefore |-> Len(live), applied |-> "no", staleSettled |-> FALSE]

\* the record of the current scope after request r has settled, with its
\* batch delivered to the buffer or not
Settled(r, delivered) ==
    IF ~r.active THEN [scope EXCEPT !.staleSettled = TRUE]
    ELSE IF ~delivered THEN scope
    ELSE [scope EXCEPT !.applied = IF Len(liveMetrics) > scope.liveBefore
                                    THEN "afterLive" ELSE "beforeLive"]

RemoveAt(s, i) == SubSeq(s, 1, i - 1) \o SubSeq(s, i + 1, Len(s))

(***************************************************************************)
(* The effects.                                                            *)
(***************************************************************************)
\* cleanup of useMetrics' effect: active = false
Deactivate(reqs) == [i \in DOMAIN reqs |-> [reqs[i] EXCEPT !.active = FALSE]]

\* MetricsEffect with the bug of a fetchHistorical without setError(null)
MetricsEffectKeepsError(sid, per) ==
    IF sid = ""
    THEN /\ requests' = Deactivate(requests)
         /\ UNCHANGED <<isLoading, error>>
    ELSE /\ requests' = Append(Deactivate(requests), Request(sid, per))
         /\ isLoading' = TRUE
         /\ UNCHANGED error

\* useMetrics' effect under the dependencies [sid, tok, per], after the cleanup
\* of the previous run: fetchHistorical() runs to its first await
MetricsEffect(sid, per) ==
    IF sid = ""
    THEN /\ requests' = Deactivate(requests)
         /\ UNCHANGED <<isLoading, error>>
    ELSE /\ requests' = Append(Deactivate(requests), Request(sid, per))
         /\ isLoading' = TRUE
         /\ error' = NoError

\* CloseCurrent with the bug of a cleanup that does not close the socket
CloseCurrentNoop(socks, cur) == socks

\* CloseCurrent with the bug of a cleanup that closes only an open socket:
\* if (ws.readyState === WebSocket.OPEN) ws.close()
CloseCurrentWhenOpen(socks, cur) ==
    [i \in DOMAIN socks |->
        IF i = cur /\ socks[i].readyState = "OPEN"
        THEN [socks[i] EXCEPT !.readyState = "CLOSING"]
        ELSE socks[i]]

\* ws.close(): CONNECTING and OPEN become CLOSING; otherwise nothing
CloseCurrent(socks, cur) ==
    [i \in DOMAIN socks |->
        IF i = cur /\ socks[i].readyState \in {"CONNECTING", "OPEN"}
        THEN [socks[i] EXCEPT !.readyState = "CLOSING"]
        ELSE socks[i]]

\* SocketEffect with the bug of an effect that keeps a socket it already has
SocketEffectReuse(sid, tok) ==
    IF sid = "" \/ tok = ""
    THEN /\ sockets' = CloseCurrent(sockets, ws)
         /\ ws' = 0
    ELSE IF ws # 0
    THEN UNCHANGED <<sockets, ws>>
    ELSE /\ sockets' = Append(sockets, Socket(sid, tok))
         /\ ws' = Len(sockets) + 1

\* SocketEffect without `if (!serverId || !token) return`, as the legacy hook
\* opened its socket
SocketEffectUnguarded(sid, tok) ==
    /\ sockets' = Append(CloseCurrent(sockets, ws), Socket(sid, tok))
    /\ ws' = Len(sockets) + 1

\* useWebSocketMetrics' effect under the dependencies [sid, tok], after the
\* cleanup of the previous run
SocketEffect(sid, tok) ==
    IF sid = "" \/ tok = ""
    THEN /\ sockets' = CloseCurrent(sockets, ws)
         /\ ws' = 0
    ELSE /\ sockets' = Append(CloseCurrent(sockets, ws), Socket(sid, tok))
         /\ ws' = Len(sockets) + 1

Init ==
    /\ mounted = TRUE
    /\ serverId \in FirstServerIds
    /\ token \in Tokens
    /\ period = "1h"
    /\ historicalMetrics = << >>
    /\ isLoading = TRUE
    /\ error = NoError
    /\ liveMetrics = << >>
    /\ requests = IF serverId = "" THEN << >> ELSE <<Request(serverId, "1h")>>
    /\ sockets = IF serverId = "" \/ token = "" THEN << >> ELSE <<Socket(serverId, token)>>
    /\ ws = IF serverId = "" \/ token = "" THEN 0 ELSE 1
    /\ changes = 0
    /\ dropped = "none"
    /\ scope = NewScope(<< >>)
    /\ ingested = [hist |-> << >>, live |-> << >>]
    /\ latestMetric = NoLatest
    /\ currentTime = 0
    /\ systemStatus = ""
    /\ raw = "none"
    /\ built = "none"

(***************************************************************************)
(* Scope changes: a commit of MainTabs with a new prop or a new period.    *)
(***************************************************************************)
\* the parent passes another serverId: both effects are re-run
ChangeServerId(sid) ==
    /\ UNCHANGED <<statusVars, normalizerVars>>
    /\ mounted
    /\ changes < MaxScopeChanges
    /\ sid # serverId
    /\ serverId' = sid
    /\ MetricsEffect(sid, period)
    /\ SocketEffect(sid, token)
    /\ changes' = changes + 1
    /\ scope' = NewScope(liveMetrics)
    /\ UNCHANGED <<mounted, token, period, historicalMetrics, liveMetrics,
                   dropped, ingested>>

\* the parent passes another token: both effects are re-run
ChangeToken(tok) ==
    /\ UNCHANGED <<statusVars, normalizerVars>>
    /\ mounted
    /\ changes < MaxScopeChanges
    /\ tok # token
    /\ token' = tok
    /\ MetricsEffect(serverId, period)
    /\ SocketEffect(serverId, tok)
    /\ changes' = changes + 1
    /\ scope' = NewScope(liveMetrics)
    /\ UNCHANGED <<mounted, serverId, period, historicalMetrics, liveMetrics,
                   dropped, ingested>>

\* setPeriod(per) from the PeriodSelector: only useMetrics' effect is re-run
SetPeriod(per) ==
    /\ UNCHANGED <<statusVars, normalizerVars>>
    /\ mounted
    /\ changes < MaxScopeChanges
    /\ per # period
    /\ period' = per
    /\ MetricsEffect(serverId, per)
    /\ changes' = changes + 1
    /\ scope' = NewScope(liveMetrics)
    /\ UNCHANGED <<mounted, serverId, token, historicalMetrics, liveMetrics,
                   sockets, ws, dropped, ingested>>

\* MainTabs is unmounted: the cleanups of both effects run, active = false
\* and ws.close(); no effect runs again
Unmount ==
    /\ UNCHANGED <<statusVars, normalizerVars>>
    /\ mounted
    /\ mounted' = FALSE
    /\ requests' = Deactivate(requests)
    /\ sockets' = CloseCurrent(sockets, ws)
    /\ ws' = 0
    /\ UNCHANGED <<serverId, token, period, historicalMetrics, isLoading, error,
                   liveMetrics, changes, dropped, scope, ingested>>

(***************************************************************************)
(* fetchHistorical after its awaits.                                       *)
(***************************************************************************)
\* CatchFinally without the checks of `active`
CatchFinallyUnguarded(r) ==
    /\ error' = FetchFailed
    /\ isLoading' = FALSE
    /\ UNCHANGED historicalMetrics

\* CatchFinally with the legacy hook's "clear metrics on failure"
CatchFinallyClears(r) ==
    /\ error' = IF r.active THEN FetchFailed ELSE error
    /\ isLoading' = IF r.active THEN FALSE ELSE isLoading
    /\ historicalMetrics' = IF r.active THEN << >> ELSE historicalMetrics

\* catch (err) { if (active) setError(...) } finally { if (active) setIsLoading(false) }
CatchFinally(r) ==
    /\ error' = IF r.active THEN FetchFailed ELSE error
    /\ isLoading' = IF r.active THEN FALSE ELSE isLoading
    /\ UNCHANGED historicalMetrics

\* await fetch(...) rejects (network error), or resolves with !res.ok
FetchFails(i) ==
    /\ UNCHANGED <<statusVars, normalizerVars>>
    /\ i \in DOMAIN requests /\ requests[i].stage = "fetch"
    /\ CatchFinally(requests[i])
    /\ requests' = RemoveAt(requests, i)
    /\ scope' = Settled(requests[i], FALSE)
    /\ UNCHANGED <<mounted, serverId, token, period, liveMetrics, sockets, ws,
                   changes, dropped, ingested>>

\* await fetch(...) resolves with res.ok: fetchHistorical suspends at res.json()
FetchOk(i) ==
    /\ UNCHANGED <<statusVars, normalizerVars>>
    /\ i \in DOMAIN requests /\ requests[i].stage = "fetch"
    /\ requests' = [requests EXCEPT ![i].stage = "json"]
    /\ UNCHANGED <<mounted, serverId, token, period, historicalMetrics, isLoading,
                   error, liveMetrics, sockets, ws, changes, dropped, scope, ingested>>

\* await res.json() rejects: the body is not JSON
JsonFails(i) ==
    /\ UNCHANGED <<statusVars, normalizerVars>>
    /\ i \in DOMAIN requests /\ requests[i].stage = "json"
    /\ CatchFinally(requests[i])
    /\ requests' = RemoveAt(requests, i)
    /\ scope' = Settled(requests[i], FALSE)
    /\ UNCHANGED <<mounted, serverId, token, period, liveMetrics, sockets, ws,
                   changes, dropped, ingested>>

\* AfterBatch with the bug of one buffer for both sources, as in the legacy
\* hook's setMetrics(historical): the points of the stream are lost
AfterBatchOneBuffer(active, points) ==
    IF active
    THEN [historicalMetrics |-> points, liveMetrics |-> << >>]
    ELSE [historicalMetrics |-> historicalMetrics, liveMetrics |-> liveMetrics]

\* if (active) setHistoricalMetrics(historical): the buffers afterwards
AfterBatch(active, points) ==
    [historicalMetrics |-> IF active THEN points ELSE historicalMetrics,
     liveMetrics |-> liveMetrics]

\* await res.json() resolves with data: data.map(...), then
\* if (active) setHistoricalMetrics(historical), then finally
JsonOk(i, data) ==
    /\ UNCHANGED <<statusVars, normalizerVars>>
    /\ i \in DOMAIN requests /\ requests[i].stage = "json"
    /\ LET r == requests[i]
           historical == MapNormalize(data)
       IN IF historical.threw
          THEN /\ CatchFinally(r)
               /\ scope' = Settled(r, FALSE)
               /\ UNCHANGED <<liveMetrics, ingested>>
          ELSE /\ historicalMetrics' = AfterBatch(r.active, historical.points).historicalMetrics
               /\ liveMetrics' = AfterBatch(r.active, historical.points).liveMetrics
               /\ isLoading' = IF r.active THEN FALSE ELSE isLoading
               /\ scope' = Settled(r, TRUE)
               /\ ingested' = IF r.active
                              THEN [ingested EXCEPT !.hist = historical.points]
                              ELSE ingested
               /\ UNCHANGED error
    /\ requests' = RemoveAt(requests, i)
    /\ UNCHANGED <<mounted, serverId, token, period, sockets, ws, changes, dropped>>

(***************************************************************************)
(* The WebSocket.                                                          *)
(***************************************************************************)
\* the connection is established (no onopen handler is set)
WsOpen(i) ==
    /\ UNCHANGED <<statusVars, normalizerVars>>
    /\ i \in DOMAIN sockets /\ sockets[i].readyState = "CONNECTING"
    /\ sockets' = [sockets EXCEPT ![i].readyState = "OPEN"]
    /\ UNCHANGED <<mounted, serverId, token, period, historicalMetrics, isLoading,
                   error, liveMetrics, requests, ws, changes, dropped, scope, ingested>>

\* WsClosed with an onclose handler that connects again
WsClosedReconnect(i) ==
    /\ UNCHANGED <<statusVars, normalizerVars>>
    /\ i \in DOMAIN sockets /\ sockets[i].readyState # "CLOSED"
    /\ IF i = ws
       THEN /\ sockets' = Append([sockets EXCEPT ![i].readyState = "CLOSED"],
                                 Socket(serverId, token))
            /\ ws' = Len(sockets) + 1
       ELSE /\ sockets' = [sockets EXCEPT ![i].readyState = "CLOSED"]
            /\ ws' = ws
    /\ UNCHANGED <<mounted, serverId, token, period, historicalMetrics, isLoading,
                   error, liveMetrics, requests, changes, dropped, scope, ingested>>

\* the connection fails, the server closes it, or the closing handshake of
\* ws.close() completes: onclose and onerror only log
WsClosed(i) ==
    /\ UNCHANGED <<statusVars, normalizerVars>>
    /\ i \in DOMAIN sockets /\ sockets[i].readyState # "CLOSED"
    /\ sockets' = [sockets EXCEPT ![i].readyState = "CLOSED"]
    /\ UNCHANGED <<mounted, serverId, token, period, historicalMetrics, isLoading,
                   error, liveMetrics, requests, ws, changes, dropped, scope, ingested>>

\* OnMessageResult without the test of msg.type
OnMessageResultAnyType(frame) ==
    IF ~frame.json THEN [append |-> FALSE, point |-> NoPoint]
    ELSE LET n == NormalizePoint(frame.data)
         IN [append |-> ~n.threw, point |-> n.point]

\* what the try block of ws.onmessage does with event.data: the point it
\* appends, or nothing (JSON.parse threw, another type, the literal threw)
OnMessageResult(frame) ==
    IF ~frame.json THEN [append |-> FALSE, point |-> NoPoint]
    ELSE IF frame.type # "metric" THEN [append |-> FALSE, point |-> NoPoint]
    ELSE LET n == NormalizePoint(frame.data)
         IN [append |-> ~n.threw, point |-> n.point]

\* SetLiveMetrics with the new point put in front: [newPoint, ...prev]
SetLiveMetricsPrepend(prev, newPoint) == <<newPoint>> \o prev

\* setLiveMetrics((prev) => [...prev, newPoint])
SetLiveMetrics(prev, newPoint) == Append(prev, newPoint)

\* ws.onmessage = (event) => {...}: a message event is only dispatched while
\* the socket is OPEN
WsOnMessage(i, frame) ==
    /\ UNCHANGED <<statusVars, normalizerVars>>
    /\ i \in DOMAIN sockets /\ sockets[i].readyState = "OPEN"
    /\ LET res == OnMessageResult(frame)
       IN /\ res.append => Len(liveMetrics) < MaxLive
          /\ liveMetrics' = IF res.append THEN SetLiveMetrics(liveMetrics, res.point)
                            ELSE liveMetrics
          /\ ingested' = IF res.append
                         THEN [ingested EXCEPT !.live = Append(@, res.point)]
                         ELSE ingested
          /\ dropped' = IF ~res.append THEN "dropped"
                        ELSE IF dropped = "dropped" THEN "recovered"
                        ELSE dropped
    /\ UNCHANGED <<mounted, serverId, token, period, historicalMetrics, isLoading,
                   error, requests, sockets, ws, changes, scope>>

\* a frame reaches a socket on which ws.close() has been called and whose
\* closing handshake is not complete: the browser fires a message event only
\* while readyState is OPEN, so onmessage is not called
WsFrameAfterClose(i) ==
    /\ UNCHANGED <<statusVars, normalizerVars>>
    /\ i \in DOMAIN sockets /\ sockets[i].readyState = "CLOSING"
    /\ sockets' = [sockets EXCEPT ![i].lateFrame = TRUE]
    /\ UNCHANGED <<mounted, serverId, token, period, historicalMetrics, isLoading,
                   error, liveMetrics, requests, ws, changes, dropped, scope, ingested>>

Next ==
    \/ \E sid \in ServerIds : ChangeServerId(sid)
    \/ \E tok \in Tokens : ChangeToken(tok)
    \/ \E per \in Periods : SetPeriod(per)
    \/ Unmount
    \/ \E i \in DOMAIN requests : FetchFails(i)
    \/ \E i \in DOMAIN requests : FetchOk(i)
    \/ \E i \in DOMAIN requests : JsonFails(i)
    \/ \E i \in DOMAIN requests :
          \E data \in HistoryBodies(requests[i].serverId, requests[i].period) :
             JsonOk(i, data)
    \/ \E i \in DOMAIN sockets : WsOpen(i)
    \/ \E i \in DOMAIN sockets : WsClosed(i)
    \/ \E i \in DOMAIN sockets : WsFrameAfterClose(i)
    \/ \E i \in DOMAIN sockets :
          \E frame \in Frames(sockets[i].serverId) : WsOnMessage(i, frame)

Spec == Init /\ [][Next]_vars

(***************************************************************************)
(* getSystemStatus: the status MainTabs shows for the last point of        *)
(* allMetrics.  It is a function of latestMetric and the clock; StatusSpec *)
(* draws both and renders.                                                 *)
(***************************************************************************)
\* the timestamp of the instant ms milliseconds after 2024-01-01T00:00:00Z
At(ms) == [fmt |-> "iso", ms |-> ms]

\* the fields of latestMetric that getSystemStatus reads.  diskPercent is
\* always a number (the hooks end its expression with `|| 0`), so
\* latestMetric.diskPercent || 0 is diskPercent
Latest(timestamp, cpu, memory, diskPercent) ==
    [null |-> FALSE, timestamp |-> timestamp, cpu |-> cpu, memory |-> memory,
     diskPercent |-> diskPercent]

\* getSystemStatus with the test of critical before the test of isStale
getSystemStatusCriticalFirst(latest, now) ==
    IF latest.null THEN "loading"
    ELSE LET cpuUsage == latest.cpu
             memoryUsage == latest.memory
             diskUsage == latest.diskPercent
             metricTime == DateGetTime(latest.timestamp)
             isStale == ~metricTime.nan /\ (now - metricTime.ms) > 120000
         IN IF cpuUsage > 95 \/ memoryUsage > 95 \/ diskUsage > 95 THEN "critical"
            ELSE IF isStale THEN "stale"
            ELSE IF cpuUsage > 80 \/ memoryUsage > 85 \/ diskUsage > 90 THEN "warning"
            ELSE IF cpuUsage >= 0 /\ memoryUsage >= 0 THEN "online"
            ELSE "unknown"

\* getSystemStatus with isStale = (currentTime - metricTime) >= 120000
getSystemStatusInclusive(latest, now) ==
    IF latest.null THEN "loading"
    ELSE LET cpuUsage == latest.cpu
             memoryUsage == latest.memory
             diskUsage == latest.diskPercent
             metricTime == DateGetTime(latest.timestamp)
             isStale == ~metricTime.nan /\ (now - metricTime.ms) >= 120000
         IN IF isStale THEN "stale"
            ELSE IF cpuUsage > 95 \/ memoryUsage > 95 \/ diskUsage > 95 THEN "critical"
            ELSE IF cpuUsage > 80 \/ memoryUsage > 85 \/ diskUsage > 90 THEN "warning"
            ELSE IF cpuUsage >= 0 /\ memoryUsage >= 0 THEN "online"
            ELSE "unknown"

\* getSystemStatus().status.  currentTime - NaN is NaN, and NaN > 120000 is
\* false: a point whose timestamp does not parse is not stale
getSystemStatus(latest, now) ==
    IF latest.null THEN "loading"
    ELSE LET cpuUsage == latest.cpu
             memoryUsage == latest.memory
             diskUsage == latest.diskPercent
             metricTime == DateGetTime(latest.timestamp)
             isStale == ~metricTime.nan /\ (now - metricTime.ms) > 120000
         IN IF isStale THEN "stale"
            ELSE IF cpuUsage > 95 \/ memoryUsage > 95 \/ diskUsage > 95 THEN "critical"
            ELSE IF cpuUsage > 80 \/ memoryUsage > 85 \/ diskUsage > 90 THEN "warning"
            ELSE IF cpuUsage >= 0 /\ memoryUsage >= 0 THEN "online"
            ELSE "unknown"

\* the values drawn for a render: percentages around the thresholds (-1: a
\* value that is not a percentage), ages around two minutes, two clocks
CpuValues == {-1, 50, 80, 81, 95, 96, 99}
MemoryValues == {-1, 50, 85, 86, 90, 95, 96}
DiskValues == {0, 90, 91, 95, 96}
Ages == {119000, 120000, 120001, 121000}
CurrentTimes == {600000, 660000}

LatestMetrics(now) ==
    {NoLatest} \cup
    { Latest(timestamp, cpu, memory, diskPercent) :
         timestamp \in {At(now - age) : age \in Ages} \cup {Garbage},
         cpu \in CpuValues, memory \in MemoryValues, diskPercent \in DiskValues }

\* MainTabs with no server, about to render latestMetric at currentTime
StatusInit ==
    /\ mounted = TRUE
    /\ serverId = ""
    /\ token = ""
    /\ period = "1h"
    /\ historicalMetrics = << >>
    /\ isLoading = TRUE
    /\ error = NoError
    /\ liveMetrics = << >>
    /\ requests = << >>
    /\ sockets = << >>
    /\ ws = 0
    /\ changes = 0
    /\ dropped = "none"
    /\ scope = NewScope(<< >>)
    /\ ingested = [hist |-> << >>, live |-> << >>]
    /\ currentTime \in CurrentTimes
    /\ latestMetric \in LatestMetrics(currentTime)
    /\ systemStatus = ""
    /\ raw = "none"
    /\ built = "none"

\* const systemStatus = getSystemStatus() of a render
Render ==
    /\ systemStatus' = getSystemStatus(latestMetric, currentTime)
    /\ UNCHANGED <<pipelineVars, latestMetric, currentTime, normalizerVars>>

StatusNext == Render

StatusSpec == StatusInit /\ [][StatusNext]_vars

(***************************************************************************)
(* The replay of one session of server srvA: a history of the ten minutes  *)
(* :00 to :09, and a stream that repeats :09 with another cpu value and    *)
(* goes on to :10.                                                         *)
(***************************************************************************)
\* the history response, oldest first or newest first
ReplayBodies ==
    { [k \in 1..10 |-> Sample(Iso(k - 1), 50, "srvA")],
      [k \in 1..10 |-> Sample(Iso(10 - k), 50, "srvA")] }

\* the frames of the stream, and one that is not JSON
ReplayFrames ==
    { JsonFrame("metric", Sample(Iso(9), 77, "srvA")),
      JsonFrame("metric", Sample(Iso(10), 78, "srvA")),
      TextFrame }

ReplayInit ==
    /\ Init
    /\ serverId = "srvA"
    /\ token = "tokA"

ReplayNext ==
    \/ \E i \in DOMAIN requests : FetchFails(i)
    \/ \E i \in DOMAIN requests : FetchOk(i)
    \/ \E i \in DOMAIN requests : \E data \in ReplayBodies : JsonOk(i, data)
    \/ \E i \in DOMAIN sockets : WsOpen(i)
    \/ \E i \in DOMAIN sockets : \E frame \in ReplayFrames : WsOnMessage(i, frame)

ReplaySpec == ReplayInit /\ [][ReplayNext]_vars

(***************************************************************************)
(* The two normalisers in full: the object literal of fetchHistorical's    *)
(* data.map and the object literal of ws.onmessage, applied to one raw     *)
(* record with JavaScript's values and operators.  (The fields copied from *)
(* meta.formatted and meta.server_info, name to loadAvg, are spelled the   *)
(* same in both literals and are left out.)                                *)
(***************************************************************************)
\* JavaScript values: undefined, null, a number, NaN, a string, an array.
\* A string is known by the number parseFloat reads at its start, -1 when it
\* starts with none ("n/a"); an array by a number for its content, 0 for [].
Undefined == [t |-> "undefined", v |-> 0]
Null == [t |-> "null", v |-> 0]
Num(n) == [t |-> "number", v |-> n]
NaN == [t |-> "NaN", v |-> 0]
Str(n) == [t |-> "string", v |-> n]
StrNoNumber == [t |-> "string", v |-> -1]
List(n) == [t |-> "array", v |-> n]

\* a is truthy: not undefined, null, 0 or NaN (no string here is empty)
Truthy(a) == a.t \in {"string", "array"} \/ (a.t = "number" /\ a.v # 0)
\* a || b
Or(a, b) == IF Truthy(a) THEN a ELSE b
\* a ?? b
Nullish(a, b) == IF a.t \in {"undefined", "null"} THEN b ELSE a
\* parseFloat(a)
ParseFloat(a) ==
    IF a.t = "number" THEN a
    ELSE IF a.t = "string" /\ a.v >= 0 THEN Num(a.v)
    ELSE NaN
\* obj?.field
Chain(obj, field) == IF obj.present THEN obj[field] ELSE Undefined
\* metrics.find(x => x.name === name)?.value
FindGauge(items, name) ==
    IF \E i \in 1..Len(items) : items[i].name = name
    THEN LET i == CHOOSE k \in 1..Len(items) :
                    /\ items[k].name = name
                    /\ \A j \in 1..(k - 1) : items[j].name # name
         IN items[i].value
    ELSE Undefined

\* meta.formatted and meta of a raw record
Formatted(present, network, disk_percent, network_io) ==
    [present |-> present, network_in |-> network, network_out |-> network,
     network_total |-> network, disk_percent |-> disk_percent,
     network_io |-> network_io]
Meta(present, network, disk, disk_percent, network_io, formatted) ==
    [present |-> present, network_in |-> network, network_out |-> network,
     network_total |-> network, disk_read_mbps |-> disk, disk_write_mbps |-> disk,
     disk_percent |-> disk_percent, network_io |-> network_io,
     formatted |-> formatted]
NoMeta == Meta(FALSE, Undefined, Undefined, Undefined, Undefined,
               Formatted(FALSE, Undefined, Undefined, Undefined))

\* a raw record as the normalisers read it
RawItem(timestamp, metrics, processes, meta) ==
    [timestamp |-> timestamp, metrics |-> metrics, processes |-> processes,
     meta |-> meta]

\* a MetricPoint
MetricPoint(timestamp, cpu, memory, disk, network, processes, diskPercent, diskRead, diskWrite, networkIO, networkIn, networkOut, networkTotal) ==
    [timestamp |-> timestamp, cpu |-> cpu, memory |-> memory, disk |-> disk,
     network |-> network, processes |-> processes, diskPercent |-> diskPercent,
     diskRead |-> diskRead, diskWrite |-> diskWrite, networkIO |-> networkIO,
     networkIn |-> networkIn, networkOut |-> networkOut,
     networkTotal |-> networkTotal]

\* no point: the literal threw, or has not been evaluated
NoMetricPoint ==
    MetricPoint(NoTimestamp, Undefined, Undefined, Undefined, Undefined, Undefined,
                Undefined, Undefined, Undefined, Undefined, Undefined, Undefined,
                Undefined)

\* item.meta?.formatted
FormattedOf(meta) ==
    IF meta.present THEN meta.formatted ELSE Formatted(FALSE, Undefined, Undefined, Undefined)

\* parseFloat(meta?.formatted?.disk_percent) || meta?.disk_percent || 0
DiskPercent(meta) ==
    Or(Or(ParseFloat(Chain(FormattedOf(meta), "disk_percent")),
          Chain(meta, "disk_percent")),
       Num(0))

\* item.meta?.network_in || (typeof item.meta?.formatted?.network_in ===
\* 'string' ? parseFloat(item.meta.formatted.network_in) : 0), and the same
\* for network_out and network_total
HistoricalThroughput(meta, field) ==
    Or(Chain(meta, field),
       IF Chain(FormattedOf(meta), field).t = "string"
       THEN ParseFloat(Chain(FormattedOf(meta), field))
       ELSE Num(0))

\* msg.data.meta?.network_in || 0, and the same for network_out, network_total
LiveThroughput(meta, field) == Or(Chain(meta, field), Num(0))

\* the object literal of data.map in fetchHistorical; item.metrics.find throws
\* a TypeError when item.metrics is undefined
HistoricalPoint(item) ==
    IF ~item.metrics.present
    THEN [done |-> TRUE, threw |-> TRUE, point |-> NoMetricPoint]
    ELSE [done |-> TRUE, threw |-> FALSE,
          point |-> MetricPoint(
              item.timestamp,
              Nullish(FindGauge(item.metrics.items, "cpu.percent"), Num(0)),
              Nullish(FindGauge(item.metrics.items, "mem.percent"), Num(0)),
              Nullish(FindGauge(item.metrics.items, "disk"), List(0)),
              Nullish(FindGauge(item.metrics.items, "network"), List(0)),
              Or(item.processes, List(0)),
              DiskPercent(item.meta),
              Or(Chain(item.meta, "disk_read_mbps"), Num(0)),
              Or(Chain(item.meta, "disk_write_mbps"), Num(0)),
              Or(Chain(FormattedOf(item.meta), "network_io"),
                 Chain(item.meta, "network_io")),
              HistoricalThroughput(item.meta, "network_in"),
              HistoricalThroughput(item.meta, "network_out"),
              HistoricalThroughput(item.meta, "network_total"))]

\* the object literal newPoint of ws.onmessage, of msg.data; it has no key
\* networkIO
LivePoint(data) ==
    IF ~data.metrics.present
    THEN [done |-> TRUE, threw |-> TRUE, point |-> NoMetricPoint]
    ELSE [done |-> TRUE, threw |-> FALSE,
          point |-> MetricPoint(
              data.timestamp,
              Nullish(FindGauge(data.metrics.items, "cpu.percent"), Num(0)),
              Nullish(FindGauge(data.metrics.items, "mem.percent"), Num(0)),
              Nullish(FindGauge(data.metrics.items, "disk"), List(0)),
              Nullish(FindGauge(data.metrics.items, "network"), List(0)),
              Or(data.processes, List(0)),
              DiskPercent(data.meta),
              Or(Chain(data.meta, "disk_read_mbps"), Num(0)),
              Or(Chain(data.meta, "disk_write_mbps"), Num(0)),
              Undefined,
              LiveThroughput(data.meta, "network_in"),
              LiveThroughput(data.meta, "network_out"),
              LiveThroughput(data.meta, "network_total"))]

\* the raw records drawn: with no metrics array, an empty one, only the cpu
\* gauge, or all four measurements; with processes absent, null or a list;
\* with no meta, or a meta whose throughput is absent, 0 or 7 at the top level
\* and absent, "5 MB/s" or "n/a" in formatted
RawMetrics ==
    { NoMetrics,
      Metrics(<< >>),
      Metrics(<<Gauge("cpu.percent", Num(50))>>),
      Metrics(<<Gauge("cpu.percent", Num(50)), Gauge("mem.percent", Num(40)),
                Gauge("disk", List(1)), Gauge("network", List(2))>>) }
RawProcesses == {Undefined, Null, List(3)}
RawMetas ==
    {NoMeta} \cup
    { Meta(TRUE, network, disk, Num(31), Num(9), Formatted(TRUE, text, Num(30), Str(9))) :
         network \in {Undefined, Num(0), Num(7)},
         disk \in {Undefined, Num(7)},
         text \in {Undefined, Str(5), StrNoNumber} }
RawItems ==
    { RawItem(Iso(1), metrics, processes, meta) :
         metrics \in RawMetrics, processes \in RawProcesses, meta \in RawMetas }

NotBuilt == [done |-> FALSE, threw |-> FALSE, point |-> NoMetricPoint]

\* MainTabs with no server; one raw record is about to be normalised
NormalizeInit ==
    /\ mounted = TRUE
    /\ serverId = ""
    /\ token = ""
    /\ period = "1h"
    /\ historicalMetrics = << >>
    /\ isLoading = TRUE
    /\ error = NoError
    /\ liveMetrics = << >>
    /\ requests = << >>
    /\ sockets = << >>
    /\ ws = 0
    /\ changes = 0
    /\ dropped = "none"
    /\ scope = NewScope(<< >>)
    /\ ingested = [hist |-> << >>, live |-> << >>]
    /\ latestMetric = NoLatest
    /\ currentTime = 0
    /\ systemStatus = ""
    /\ raw \in RawItems
    /\ built = [historical |-> NotBuilt, live |-> NotBuilt]

\* the record arrives as an element of a history response
NormalizeHistorical ==
    /\ built' = [built EXCEPT !.historical = HistoricalPoint(raw)]
    /\ UNCHANGED <<pipelineVars, statusVars, raw>>

\* the record arrives as msg.data of a metric frame
NormalizeLive ==
    /\ built' = [built EXCEPT !.live = LivePoint(raw)]
    /\ UNCHANGED <<pipelineVars, statusVars, raw>>

NormalizeNext == NormalizeHistorical \/ NormalizeLive

NormalizeSpec == NormalizeInit /\ [][NormalizeNext]_vars

(***************************************************************************)
(* Redelivery: the stream of one server sends again a frame it has sent    *)
(* before, after at most MaxLive other frames.                             *)
(***************************************************************************)
MaxRedeliveries == 1

\* ws.onmessage called with a metric frame whose point is already in
\* liveMetrics
WsRedeliver(i, frame) ==
    /\ UNCHANGED <<statusVars, normalizerVars>>
    /\ i \in DOMAIN sockets /\ sockets[i].readyState = "OPEN"
    /\ LET res == OnMessageResult(frame)
       IN /\ res.append
          /\ \E k \in 1..Len(liveMetrics) : liveMetrics[k] = res.point
          /\ Len(ingested.live) < MaxLive + MaxRedeliveries
          /\ liveMetrics' = SetLiveMetrics(liveMetrics, res.point)
          /\ ingested' = [ingested EXCEPT !.live = Append(@, res.point)]
          /\ dropped' = IF dropped = "dropped" THEN "recovered" ELSE dropped
    /\ UNCHANGED <<mounted, serverId, token, period, historicalMetrics, isLoading,
                   error, requests, sockets, ws, changes, scope>>

RedeliverNext ==
    \/ \E i \in DOMAIN requests : FetchFails(i)
    \/ \E i \in DOMAIN requests : FetchOk(i)
    \/ \E i \in DOMAIN requests :
          \E data \in HistoryBodies("srvA", "1h") : JsonOk(i, data)
    \/ \E i \in DOMAIN sockets : WsOpen(i)
    \/ \E i \in DOMAIN sockets : \E frame \in Frames("srvA") : WsOnMessage(i, frame)
    \/ \E i \in DOMAIN sockets : \E frame \in Frames("srvA") : WsRedeliver(i, frame)

RedeliverSpec == ReplayInit /\ [][RedeliverNext]_vars

(***************************************************************************)
(* The history side on its own, with a network that answers: every request *)
(* that fetchHistorical has issued is settled in the end, its promise      *)
(* resolved or rejected.  No socket event is followed here.                *)
(***************************************************************************)
\* one of fetchHistorical's awaits completes
Settle ==
    \/ \E i \in DOMAIN requests : FetchFails(i)
    \/ \E i \in DOMAIN requests : FetchOk(i)
    \/ \E i \in DOMAIN requests : JsonFails(i)
    \/ \E i \in DOMAIN requests :
          \E data \in HistoryBodies(requests[i].serverId, requests[i].period) :
             JsonOk(i, data)

LoadingNext ==
    \/ \E sid \in ServerIds : ChangeServerId(sid)
    \/ \E tok \in Tokens : ChangeToken(tok)
    \/ \E per \in Periods : SetPeriod(per)
    \/ Unmount
    \/ Settle

LoadingSpec == Init /\ [][LoadingNext]_vars /\ WF_vars(Settle)

(***************************************************************************)
(* The claims.                                                             *)
(***************************************************************************)
Keys(points) == {points[i].timestamp : i \in 1..Len(points)}

\* C1: the snapshot allMetrics is strictly ascending by time: the time value
\* of every point is a number strictly smaller than that of the point after it
C1_StrictlyAscending ==
    LET snapshot == allMetrics
    IN \A i \in 1..(Len(snapshot) - 1) :
          LET a == DateGetTime(snapshot[i].timestamp)
              b == DateGetTime(snapshot[i + 1].timestamp)
          IN ~a.nan /\ ~b.nan /\ a.ms < b.ms

\* C2: the snapshot holds at most one point per distinct timestamp value
C2_OnePointPerTimestamp ==
    LET snapshot == allMetrics
    IN \A i, j \in 1..Len(snapshot) :
          i # j => snapshot[i].timestamp # snapshot[j].timestamp

\* C2's case: the stream has delivered one timestamp twice and the history
\* holds it too
C2_Witness ==
    \E i, j \in 1..Len(liveMetrics) :
        /\ i < j
        /\ liveMetrics[i].timestamp = liveMetrics[j].timestamp
        /\ liveMetrics[i].timestamp \in Keys(historicalMetrics)

\* the last point of the stream with this timestamp
LastLive(timestamp) ==
    LET i == CHOOSE k \in 1..Len(liveMetrics) :
                /\ liveMetrics[k].timestamp = timestamp
                /\ \A l \in (k + 1)..Len(liveMetrics) : liveMetrics[l].timestamp # timestamp
    IN liveMetrics[i]

\* the timestamps both sources have delivered in the current scope
Collisions ==
    IF scope.applied = "no" THEN {}
    ELSE {liveMetrics[i].timestamp : i \in (scope.liveBefore + 1)..Len(liveMetrics)}
            \cap Keys(historicalMetrics)

\* C3: for a timestamp that the history and the stream have both delivered in
\* the current scope, the snapshot's entry is the stream's point
C3_LiveSupersedesHistory ==
    LET snapshot == allMetrics
    IN \A timestamp \in Collisions :
          \E i \in 1..Len(snapshot) :
             /\ snapshot[i].timestamp = timestamp
             /\ snapshot[i] = LastLive(timestamp)

\* C3's case: the batch arrived after the point of the stream it collides
\* with, and the two differ
C3_Witness ==
    /\ scope.applied = "afterLive"
    /\ \E timestamp \in Collisions :
          \E h \in 1..Len(historicalMetrics) :
             /\ historicalMetrics[h].timestamp = timestamp
             /\ historicalMetrics[h].cpu # LastLive(timestamp).cpu

\* C4: the snapshot holds at most CAPACITY points
C4_AtMostCapacity == Len(allMetrics) <= CAPACITY

\* the time of a timestamp that parses
TimeOf(timestamp) == DateGetTime(timestamp).ms

\* C5: when more than CAPACITY distinct timestamps have been ingested, the
\* snapshot is the CAPACITY points with the greatest timestamps among them
C5_KeepsMostRecent ==
    LET keys == Keys(ingested.hist) \cup Keys(ingested.live)
        snapshot == allMetrics
    IN Cardinality(keys) > CAPACITY =>
          /\ Len(snapshot) = CAPACITY
          /\ \A k \in keys :
                (k \in Keys(snapshot)) <=>
                   Cardinality({l \in keys : TimeOf(l) > TimeOf(k)}) < CAPACITY

\* C6: the snapshot is determined by what each source has delivered, the
\* batch and the points of the stream in their order, whatever the
\* interleaving of the batch with the points was
C6_OrderIndependent == allMetrics = Merge(ingested.hist, ingested.live)

\* C6's case: the batch arrived after points of the stream
C6_Witness ==
    /\ scope.applied = "afterLive"
    /\ ingested.hist # << >>
    /\ Len(ingested.live) > scope.liveBefore

\* C7: the settlement of a request whose scope has changed since it was made
\* changes neither the buffers nor isLoading nor error
C7_StaleSettlementIgnored ==
    [][\A i \in DOMAIN requests :
          (~requests[i].active /\ requests' = RemoveAt(requests, i)) =>
             /\ historicalMetrics' = historicalMetrics
             /\ liveMetrics' = liveMetrics
             /\ isLoading' = isLoading
             /\ error' = error]_vars

\* C7's case: a request of an earlier scope has settled while the request of
\* the current scope is still in flight
C7_Witness ==
    /\ scope.staleSettled
    /\ isLoading
    /\ \E i \in DOMAIN requests : requests[i].active

\* C8: the snapshot holds no point measured on another server than serverId
C8_NoPointOfPreviousServer ==
    LET snapshot == allMetrics
    IN \A i \in 1..Len(snapshot) : snapshot[i].serverInfo = serverId

\* C9: a socket that is connecting or open is the current one and was made
\* for the current serverId and token; a change of serverId or token closes
\* the current socket and, when both are present afterwards, makes a new one
C9_SocketPerScope ==
    /\ [](\A i \in DOMAIN sockets :
            sockets[i].readyState \in {"CONNECTING", "OPEN"} =>
               /\ i = ws
               /\ sockets[i].serverId = serverId
               /\ sockets[i].token = token)
    /\ [][(serverId' # serverId \/ token' # token) =>
            /\ ws # 0 => sockets'[ws].readyState \in {"CLOSING", "CLOSED"}
            /\ ws' # 0 => ws' # ws
            /\ (serverId' # "" /\ token' # "") =>
                  /\ ws' = Len(sockets) + 1
                  /\ sockets' = Append(SubSeq(sockets', 1, Len(sockets)),
                                       Socket(serverId', token'))]_vars

\* C9's case: the socket of the previous scope is closing and the socket of
\* the current scope is open
C9_Witness ==
    /\ ws # 0
    /\ sockets[ws].readyState = "OPEN"
    /\ \E i \in DOMAIN sockets : i # ws /\ sockets[i].readyState = "CLOSING"

\* a frame that is not JSON, is of another type, or has no metrics array
BadFrame(frame) ==
    \/ ~frame.json
    \/ frame.type # "metric"
    \/ ~frame.data.metrics.present

\* C10: a bad frame leaves liveMetrics and the sockets as they are; any other
\* metric frame, also after a bad one, is appended
C10_BadFrameDropped ==
    [][\A i \in DOMAIN sockets :
          \A frame \in Frames(sockets[i].serverId) :
             WsOnMessage(i, frame) =>
                IF BadFrame(frame)
                THEN liveMetrics' = liveMetrics /\ sockets' = sockets
                ELSE liveMetrics' = Append(liveMetrics, NormalizePoint(frame.data).point)]_vars

\* C10's case: a point was appended after a frame was dropped, on a socket
\* that is still open
C10_Witness ==
    /\ dropped = "recovered"
    /\ ws # 0
    /\ sockets[ws].readyState = "OPEN"

\* C11: liveMetrics is changed only by a frame on the socket of the current
\* serverId and token while MainTabs is mounted, historicalMetrics only by the
\* settlement of the request of the current serverId and period; a frame that
\* reaches a socket closed by a cleanup changes neither
C11_OnlyCurrentScopeMutates ==
    [][/\ liveMetrics' # liveMetrics =>
            /\ mounted
            /\ ws # 0
            /\ sockets[ws].serverId = serverId
            /\ sockets[ws].token = token
            /\ \E frame \in Frames(serverId) : WsOnMessage(ws, frame)
       /\ historicalMetrics' # historicalMetrics =>
            /\ mounted
            /\ \E i \in DOMAIN requests :
                  /\ requests[i].active
                  /\ requests[i].serverId = serverId
                  /\ requests[i].period = period
                  /\ requests' = RemoveAt(requests, i)
       /\ (\E i \in DOMAIN sockets : WsFrameAfterClose(i)) =>
            /\ liveMetrics' = liveMetrics
            /\ historicalMetrics' = historicalMetrics]_vars

\* C11's case: a frame has reached the socket of the previous scope after its
\* cleanup, while the socket of the current scope is open
C11_Witness ==
    /\ mounted
    /\ ws # 0
    /\ sockets[ws].readyState = "OPEN"
    /\ \E i \in DOMAIN sockets : i # ws /\ sockets[i].lateFrame

C13_ErrorOnlyOnFailure ==
    [][\A i \in DOMAIN requests :
          requests[i].active =>
             /\ (FetchFails(i) \/ JsonFails(i)) =>
                   (error' = FetchFailed /\ isLoading' = FALSE)
             /\ (\E data \in HistoryBodies(requests[i].serverId, requests[i].period) :
                    JsonOk(i, data)) =>
                   (error' = NoError /\ isLoading' = FALSE)]_vars

\* C14: a response that was fetched and parsed as JSON and holds a record
\* the normalisation cannot read does not set error
C14_ParseFaultNoError ==
    [][\A i \in DOMAIN requests :
          \A data \in HistoryBodies(requests[i].serverId, requests[i].period) :
             (/\ requests[i].active
              /\ MapNormalize(data).threw
              /\ JsonOk(i, data)) =>
                error' # FetchFailed]_vars

\* C15: no point of either buffer has a timestamp that is missing or that
\* Date cannot parse
C15_NoUnparseableTimestamp ==
    /\ \A i \in 1..Len(liveMetrics) : ~DateGetTime(liveMetrics[i].timestamp).nan
    /\ \A i \in 1..Len(historicalMetrics) :
          ~DateGetTime(historicalMetrics[i].timestamp).nan

\* the age of point latest at time now exceeds ms milliseconds
OlderThan(latest, now, ms) ==
    /\ ~DateGetTime(latest.timestamp).nan
    /\ now - DateGetTime(latest.timestamp).ms > ms

\* the status bands in their order of priority
Bands(latest, now) ==
    << [when |-> latest.null, status |-> "loading"],
       [when |-> ~latest.null /\ OlderThan(latest, now, 120 * 1000), status |-> "stale"],
       [when |-> ~latest.null /\ (latest.cpu > 95 \/ latest.memory > 95 \/ latest.diskPercent > 95),
        status |-> "critical"],
       [when |-> ~latest.null /\ (latest.cpu > 80 \/ latest.memory > 85 \/ latest.diskPercent > 90),
        status |-> "warning"],
       [when |-> ~latest.null /\ latest.cpu >= 0 /\ latest.memory >= 0, status |-> "online"],
       [when |-> TRUE, status |-> "unknown"] >>

\* C16: the status of a render is that of the first band that matches; a
\* point older than 120 s with cpu 99 is stale, and a fresh point with cpu 96
\* and memory 90 is critical
C16_FirstBandWins ==
    systemStatus # "" =>
       LET bands == Bands(latestMetric, currentTime)
           first == CHOOSE k \in 1..Len(bands) :
                       bands[k].when /\ \A j \in 1..(k - 1) : ~bands[j].when
       IN /\ systemStatus = bands[first].status
          /\ (/\ ~latestMetric.null
              /\ OlderThan(latestMetric, currentTime, 120 * 1000)
              /\ latestMetric.cpu = 99) => systemStatus = "stale"
          /\ (/\ ~latestMetric.null
              /\ ~OlderThan(latestMetric, currentTime, 120 * 1000)
              /\ latestMetric.cpu = 96
              /\ latestMetric.memory = 90) => systemStatus = "critical"

\* C16's case: a point older than 120 s with cpu 99 was rendered as stale
C16_Witness ==
    /\ systemStatus = "stale"
    /\ ~latestMetric.null
    /\ latestMetric.cpu = 99
    /\ OlderThan(latestMetric, currentTime, 120 * 1000)

\* the point latest is exactly ms milliseconds old at time now
AgedExactly(latest, now, ms) ==
    /\ ~latest.null
    /\ ~DateGetTime(latest.timestamp).nan
    /\ now - DateGetTime(latest.timestamp).ms = ms

\* C17: a point is stale exactly when its age is above 120 s: 121 s is
\* stale, 120 s is not, and 119 s with cpu 50, memory 50 and no disk value is
\* online
C17_StrictStaleThreshold ==
    systemStatus # "" =>
       /\ AgedExactly(latestMetric, currentTime, 121000) => systemStatus = "stale"
       /\ AgedExactly(latestMetric, currentTime, 120000) => systemStatus # "stale"
       /\ (/\ AgedExactly(latestMetric, currentTime, 119000)
           /\ latestMetric.cpu = 50
           /\ latestMetric.memory = 50
           /\ latestMetric.diskPercent = 0) => systemStatus = "online"
       /\ (~latestMetric.null /\ ~DateGetTime(latestMetric.timestamp).nan) =>
             (systemStatus = "stale" <=>
                currentTime - DateGetTime(latestMetric.timestamp).ms > 120000)

\* C17's case: a point of exactly 120 s was rendered and is online
C17_Witness ==
    /\ systemStatus = "online"
    /\ AgedExactly(latestMetric, currentTime, 120000)

\* the points of the replayed stream
Live09 == NormalizePoint(Sample(Iso(9), 77, "srvA")).point
Live10 == NormalizePoint(Sample(Iso(10), 78, "srvA")).point

\* the ten-minute history is in historicalMetrics and the stream has
\* delivered :09 and then :10
Replayed ==
    /\ Len(historicalMetrics) = 10
    /\ liveMetrics = <<Live09, Live10>>

\* C18: after the history of :00 to :09 and the live points :09 and :10, the
\* snapshot has 11 points in strictly ascending order, its entry for :09 is
\* the live point and :10 is last
C18_ReplaySnapshot ==
    Replayed =>
       LET snapshot == allMetrics
       IN /\ Len(snapshot) = 11
          /\ \A k \in 1..10 : TimeOf(snapshot[k].timestamp) < TimeOf(snapshot[k + 1].timestamp)
          /\ \A k \in 1..9 : snapshot[k] = NormalizePoint(Sample(Iso(k - 1), 50, "srvA")).point
          /\ snapshot[10] = Live09
          /\ snapshot[11] = Live10

\* C18's case: the history arrived first, then :09 and :10 from the stream
C18_Witness ==
    /\ Replayed
    /\ scope.applied = "beforeLive"
    /\ ingested.live = <<Live09, Live10>>

\* C19: while serverId and token stay as they are no socket is made; the
\* close of the current socket by the remote side changes no buffer, and as
\* long as the scope stays the socket stays closed and liveMetrics as it was
C19_NoReconnect ==
    [][(serverId' = serverId /\ token' = token) =>
          /\ Len(sockets') = Len(sockets)
          /\ ws' \in {ws, 0}
          /\ (ws # 0 /\ WsClosed(ws)) =>
                (liveMetrics' = liveMetrics /\ historicalMetrics' = historicalMetrics)
          /\ (ws # 0 /\ sockets[ws].readyState = "CLOSED") =>
                (sockets'[ws].readyState = "CLOSED" /\ liveMetrics' = liveMetrics)]_vars

\* C19's case: the socket of the current scope was open, has delivered a
\* point and was closed by the remote side, and the point is still there
C19_Witness ==
    /\ mounted
    /\ ws # 0
    /\ sockets[ws].readyState = "CLOSED"
    /\ Len(liveMetrics) > scope.liveBefore

\* C20: every socket was made for a serverId and a token that are present,
\* and while either is missing there is no current socket and none that is
\* connecting or open
C20_SocketNeedsScope ==
    /\ \A i \in DOMAIN sockets : sockets[i].serverId # "" /\ sockets[i].token # ""
    /\ (serverId = "" \/ token = "") =>
          /\ ws = 0
          /\ \A i \in DOMAIN sockets : sockets[i].readyState \notin {"CONNECTING", "OPEN"}

\* C20's case: the token of a server was taken away: its socket was closed,
\* the history is requested again and no socket was made
C20_Witness ==
    /\ mounted
    /\ serverId # ""
    /\ token = ""
    /\ ws = 0
    /\ sockets # << >>
    /\ \E i \in DOMAIN requests : requests[i].active

\* C21: liveMetrics holds the accepted points in the order of their arrival:
\* an accepted frame leaves every earlier point at its index and puts its own
\* point behind them
C21_ArrivalOrder ==
    /\ [](liveMetrics = ingested.live)
    /\ [][liveMetrics' # liveMetrics =>
            /\ Len(liveMetrics') = Len(liveMetrics) + 1
            /\ SubSeq(liveMetrics', 1, Len(liveMetrics)) = liveMetrics]_vars

\* C21's case: two different points have arrived on the open socket, the one
\* with cpu 12 first
C21_Witness ==
    /\ Len(liveMetrics) = 2
    /\ liveMetrics[1].cpu = 12
    /\ liveMetrics[2].cpu = 11
    /\ ws # 0
    /\ sockets[ws].readyState = "OPEN"

\* the sequence of points is the whole of the response body data
WholeBatch(points, data) ==
    /\ Len(points) = Len(data)
    /\ \A i \in 1..Len(data) : points[i] = NormalizePoint(data[i]).point

\* C22: historicalMetrics is empty or the whole of one response, never a part
\* of one, and every timestamp of it is in the snapshot
C22_BatchAllTogether ==
    /\ historicalMetrics = ingested.hist
    /\ historicalMetrics # << >> =>
          \E per \in Periods :
             \E data \in HistoryBodies(historicalMetrics[1].serverInfo, per) :
                WholeBatch(historicalMetrics, data)
    /\ LET snapshot == allMetrics
       IN Keys(snapshot) = Keys(historicalMetrics) \cup Keys(liveMetrics)

\* C22's case: a response of two records is in historicalMetrics while the
\* stream has delivered points
C22_Witness ==
    /\ Len(historicalMetrics) = 2
    /\ liveMetrics # << >>
    /\ ~isLoading

\* the raw record has no measurement of this name
Lacks(name) ==
    \A i \in 1..Len(raw.metrics.items) : raw.metrics.items[i].name # name

\* C23: neither normaliser throws on a record that lacks a measurement or
\* the processes array, and the point has 0 for a gauge the record lacks, []
\* for disk or network it lacks, and [] for processes it lacks
C23_DefaultsNeverThrow ==
    \A side \in {"historical", "live"} :
       built[side].done =>
          /\ ~built[side].threw
          /\ Lacks("cpu.percent") => built[side].point.cpu = Num(0)
          /\ Lacks("mem.percent") => built[side].point.memory = Num(0)
          /\ Lacks("disk") => built[side].point.disk = List(0)
          /\ Lacks("network") => built[side].point.network = List(0)
          /\ raw.processes.t # "array" => built[side].point.processes = List(0)

\* the value a throughput field is to have: the number at the top level of
\* meta when there is one, else the number parsed from the string of
\* meta.formatted, else 0
Throughput(top, text) ==
    IF top.t = "number" THEN top
    ELSE IF text.t = "string" /\ ParseFloat(text).t = "number" THEN ParseFloat(text)
    ELSE Num(0)

\* C24: in the point of either normaliser, the network fields and the disk
\* read and write fields are Throughput of the record's meta
C24_ThroughputFallback ==
    \A side \in {"historical", "live"} :
       (built[side].done /\ ~built[side].threw) =>
          LET meta == raw.meta
              formatted == FormattedOf(raw.meta)
              point == built[side].point
          IN /\ point.networkIn = Throughput(Chain(meta, "network_in"),
                                             Chain(formatted, "network_in"))
             /\ point.networkOut = Throughput(Chain(meta, "network_out"),
                                              Chain(formatted, "network_out"))
             /\ point.networkTotal = Throughput(Chain(meta, "network_total"),
                                                Chain(formatted, "network_total"))
             /\ point.diskRead = Throughput(Chain(meta, "disk_read_mbps"), Undefined)
             /\ point.diskWrite = Throughput(Chain(meta, "disk_write_mbps"), Undefined)

\* C30: the point the historical normaliser builds from a raw record equals
\* the point the live normaliser builds from the same record, field by field
C30_SameNormalizer ==
    (built.historical.done /\ built.live.done) =>
       /\ built.historical.threw = built.live.threw
       /\ built.historical.point = built.live.point

\* ws.onmessage has appended a point that liveMetrics already held, and the
\* history is the same
Redelivered ==
    /\ historicalMetrics' = historicalMetrics
    /\ Len(liveMetrics') = Len(liveMetrics) + 1
    /\ \E k \in 1..Len(liveMetrics) : liveMetrics[k] = liveMetrics'[Len(liveMetrics')]

\* C25: delivering again a live frame that was already ingested leaves the
\* snapshot as it was: same points, same order, same length
C25_RedeliveryKeepsSnapshot ==
    [][Redelivered => allMetrics' = allMetrics]_vars

\* C26: ws.close() has been called on every socket but the one the effect
\* holds, so at most one socket is connecting or open at any time
C26_OneUnclosedConnection ==
    /\ \A i \in DOMAIN sockets :
          sockets[i].readyState \in {"CONNECTING", "OPEN"} => i = ws
    /\ Cardinality({i \in DOMAIN sockets :
                      sockets[i].readyState \in {"CONNECTING", "OPEN"}}) <= 1

\* a scope change has replaced a socket: the first is closing or closed, the
\* second is connecting or open
C26_Witness ==
    /\ Len(sockets) = 2
    /\ sockets[1].readyState \in {"CLOSING", "CLOSED"}
    /\ sockets[2].readyState \in {"CONNECTING", "OPEN"}

\* fetchHistorical is not waiting for an answer in the current scope: its
\* request has settled, or it issued none
NoActiveRequest == \A i \in DOMAIN requests : ~requests[i].active

RequestStarted == changes' # changes /\ serverId' # ""

\* C28: the step that starts the request of a new scope sets isLoading and
\* unsets error, and in a scope whose request has delivered its batch error
\* is unset and isLoading is false
C28_NewRequestClearsError ==
    /\ [][RequestStarted => (isLoading' /\ error' = NoError)]_vars
    /\ [](scope.applied # "no" => (error = NoError /\ ~isLoading))

\* the request of the first scope failed, which set error; the period was
\* changed and the request of the new scope is in flight, with error unset
C28_Witness ==
    /\ changes = 1
    /\ period = "24h"
    /\ ~scope.staleSettled
    /\ historicalMetrics = << >>
    /\ Len(requests) = 1
    /\ requests[1].active
    /\ isLoading
    /\ error = NoError

\* C29: the last point of the snapshot, which MainTabs takes as latestMetric,
\* has the greatest time of the snapshot: its timestamp parses and no point
\* of the snapshot has a later time
C29_LatestIsGreatest ==
    LET snapshot == allMetrics
    IN \A i \in 1..Len(snapshot) :
          LET t == DateGetTime(snapshot[i].timestamp)
              last == DateGetTime(snapshot[Len(snapshot)].timestamp)
          IN ~t.nan => (~last.nan /\ t.ms <= last.ms)

====
